---------------------------- MODULE Spec2Model ----------------------------
(***************************************************************************)
(* Model of the resumable migration engine of code-migrator:               *)
(*   src/filters/patterns.py   FileFilter                                   *)
(*   src/utils/progress.py     ProgressTracker.calculate_directory_size     *)
(*   src/utils/hashing.py      FileHasher                                   *)
(*   src/core/state.py         MigrationState, StateManager                 *)
(*   src/core/migrator.py      SmartFileMigrator                            *)
(*   src/main.py               main                                         *)
(*                                                                         *)
(* A path is the sequence of its segments (pathlib's Path.parts of a       *)
(* relative path); a string is a TLA+ string, on which Len, \o and SubSeq  *)
(* work character by character.                                            *)
(***************************************************************************)
EXTENDS Integers, Sequences, FiniteSets, TLC

VARIABLES
    pc,             \* position of the process inside main / migrate_directory
    args,           \* arguments of the current call of migrate_directory
    state,          \* the local `state`: None or Some(MigrationState)
    files_to_copy,  \* the list built by _collect_files_to_copy
    idx,            \* index in files_to_copy of the file the loop is at
    file_size,      \* the loop's local file_size
    success,        \* the loop's local success
    ckpt,           \* the file .migration_state.json
    dest,           \* what dest_file holds: "prior", "partial" or "full"
    result,         \* how the last call of migrate_directory ended
    exit_code,      \* exit status of the last process (main.py)
    runs,           \* number of processes started so far
    hist,           \* history of the current process (what it copied, ...)
    ckpt_by,        \* history: <<source, destination>> of the call that wrote ckpt
    faults,         \* I/O errors and interruptions that have happened so far
    fargs,          \* FileFilter under test: constructor arguments and path
    fresult,        \* FileFilter under test: value returned by should_exclude
    hargs,          \* FileHasher under test: the source and destination files
    hresult,        \* FileHasher under test: the digests and the value returned
    sargs,          \* StateManager under test: the state to save, the file before
    sresult         \* StateManager under test: the file after, what load returned

vars == <<pc, args, state, files_to_copy, idx, file_size, success, ckpt,
          dest, result, exit_code, runs, hist, ckpt_by, faults, fargs,
          fresult, hargs, hresult, sargs, sresult>>

\* the variables of the migration engine
engineVars == <<pc, args, state, files_to_copy, idx, file_size, success, ckpt,
                dest, result, exit_code, runs, hist, ckpt_by, faults>>

\* the variables of the components under test on their own
unitVars == <<fargs, fresult, hargs, hresult, sargs, sresult>>

\* Python None and Optional values: the empty sequence, or <<value>>
None == << >>
Some(v) == <<v>>

(***************************************************************************)
(* Strings and paths                                                       *)
(***************************************************************************)

\* Python `t in s` on strings
Contains(s, t) ==
    \E i \in 1..(Len(s) - Len(t) + 1) : SubSeq(s, i, i + Len(t) - 1) = t

\* Python s.startswith(t)
StartsWith(s, t) == Len(t) <= Len(s) /\ SubSeq(s, 1, Len(t)) = t

\* Python s.endswith(t)
EndsWith(s, t) ==
    Len(t) <= Len(s) /\ SubSeq(s, Len(s) - Len(t) + 1, Len(s)) = t

\* str(path): the segments joined by "/" ("." for the empty path)
RECURSIVE Join(_)
Join(parts) ==
    IF Len(parts) = 0 THEN ""
    ELSE IF Len(parts) = 1 THEN parts[1]
    ELSE parts[1] \o "/" \o Join(Tail(parts))

PathStr(path) == IF Len(path) = 0 THEN "." ELSE Join(path)

\* Path(s): s split at "/", empty and "." segments dropped
FirstSlash(s) ==
    IF \E i \in 1..Len(s) : SubSeq(s, i, i) = "/"
    THEN CHOOSE i \in 1..Len(s) :
            /\ SubSeq(s, i, i) = "/"
            /\ \A j \in 1..(i - 1) : SubSeq(s, j, j) # "/"
    ELSE 0

Segment(x) == IF x \in {"", "."} THEN << >> ELSE <<x>>

RECURSIVE PathOf(_)
PathOf(s) ==
    IF Len(s) = 0 THEN << >>
    ELSE LET k == FirstSlash(s)
         IN  IF k = 0 THEN Segment(s)
             ELSE Segment(SubSeq(s, 1, k - 1)) \o PathOf(SubSeq(s, k + 1, Len(s)))

\* path.name: the final component ("" for the empty path)
PathName(path) == IF Len(path) = 0 THEN "" ELSE path[Len(path)]

\* path.parts as a set, for `x in path.parts`
PathParts(path) == {path[i] : i \in 1..Len(path)}

\* a / b for a relative path b
PathJoin(a, b) == a \o b

\* file_path.relative_to(source)
RelativeTo(path, source) == SubSeq(path, Len(source) + 1, Len(path))

(***************************************************************************)
(* src/filters/patterns.py                                                 *)
(***************************************************************************)

EXCLUDE_PATTERNS ==
    { "node_modules", "__pycache__", ".pytest_cache", ".mypy_cache", "dist",
      "build", ".next", ".nuxt", "coverage", ".coverage", ".tox", ".venv",
      "venv", "*.pyc", "*.pyo", "*.pyd", ".DS_Store", "Thumbs.db", "*.log",
      "*.tmp", "*.temp", ".sass-cache", ".parcel-cache", ".cache",
      "node_modules.bak", "bower_components", ".git/objects", ".git/refs",
      ".git/logs", "target", "bin", "obj", ".vs", ".vscode/settings.json",
      ".idea/workspace.xml", ".idea/tasks.xml" }

INCLUDE_PATTERNS ==
    { ".env", ".env.local", ".env.development", ".env.production",
      ".env.staging", ".env.test", ".env.example", ".env.template",
      ".env.sample", ".git", ".gitignore", ".gitmodules", ".gitattributes",
      ".dockerignore", "Dockerfile", "docker-compose.yml",
      "docker-compose.yaml", ".editorconfig", ".prettierrc",
      "pyproject.toml", "poetry.lock", "requirements.txt", "package.json",
      "package-lock.json", "yarn.lock", "pnpm-lock.yaml", "tsconfig.json",
      "tslint.json", "eslint.config.js", ".eslintrc.js", ".eslintrc.json",
      "jest.config.js", "babel.config.js", "webpack.config.js",
      "vite.config.ts", "tailwind.config.js", "postcss.config.js",
      "Makefile", "requirements-dev.txt", "setup.py", "setup.cfg", "tox.ini",
      ".pre-commit-config.yaml", ".github", "LICENSE", "README.md",
      "CHANGELOG.md", ".gitkeep", ".npmrc", ".yarnrc" }

\* FileFilter.__init__: the defaults plus the additional tokens
FileFilter(additional_exclude, additional_include) ==
    [ exclude_patterns |-> EXCLUDE_PATTERNS \cup additional_exclude,
      include_patterns |-> INCLUDE_PATTERNS \cup additional_include ]

\* the test of lines 130-132: an include token in the name or the string
include_match(self, path) ==
    \E pattern \in self.include_patterns :
        Contains(PathName(path), pattern) \/ Contains(PathStr(path), pattern)

git_excludes == {"objects", "refs", "logs"}

\* the test of lines 136-139
git_match(path) ==
    /\ ".git" \in PathParts(path)
    /\ \E excluded \in git_excludes : excluded \in PathParts(path)

\* one iteration of the loop of lines 142-150
exclude_match(pattern, path) ==
    IF StartsWith(pattern, "*.")
    THEN EndsWith(PathStr(path), SubSeq(pattern, 2, Len(pattern)))
    ELSE \/ pattern \in PathParts(path)
         \/ pattern = PathName(path)
         \/ /\ EndsWith(pattern, "*")
            /\ StartsWith(PathName(path), SubSeq(pattern, 1, Len(pattern) - 1))

\* should_exclude with the include test moved behind the other two
should_exclude_include_last(self, path) ==
    IF git_match(path) THEN TRUE
    ELSE IF \E pattern \in self.exclude_patterns : exclude_match(pattern, path)
    THEN TRUE
    ELSE FALSE

\* FileFilter.should_exclude
should_exclude(self, path) ==
    IF include_match(self, path) THEN FALSE
    ELSE IF git_match(path) THEN TRUE
    ELSE \E pattern \in self.exclude_patterns : exclude_match(pattern, path)


(***************************************************************************)
(* The file system the program runs on                                     *)
(***************************************************************************)

MaxRuns == 3    \* processes started in one behaviour
MaxFaults == 2  \* I/O errors and interruptions in one behaviour

\* the tree every source root holds, in the order the file system
\* enumerates it, as paths relative to the root
RelEntries ==
    << <<"a.txt">>, <<"node_modules">>, <<"node_modules", "x.js">>,
       <<".env">> >>

RelDirs == { <<"node_modules">> }

Range(seq) == { seq[i] : i \in 1..Len(seq) }

RelFiles == Range(RelEntries) \ RelDirs

\* st_size of a source file
StatSize(path) ==
    LET name == PathName(path)
    IN  IF name = "a.txt" THEN 5 ELSE IF name = "x.js" THEN 10 ELSE 3

\* the directories that hold the tree
SourceRoots == { <<"proj">>, <<"build", "proj">> }

SAVE_EVERY == 100       \* migrator.py line 242

\* a directory that holds one file more than the period of the saves
BigRoot == <<"big">>

BigEntries == [ i \in 1..(SAVE_EVERY + 1) |-> <<"f" \o ToString(i)>> ]

\* what a directory holds, in enumeration order
Entries(root) == IF root = BigRoot THEN BigEntries ELSE RelEntries

\* every regular file there is
AllFiles ==
    { PathJoin(root, rel) : root \in SourceRoots, rel \in RelFiles }
        \cup { PathJoin(BigRoot, rel) : rel \in Range(BigEntries) }

IsFile(path) == path \in AllFiles

IsDir(path) ==
    \/ path \in SourceRoots \cup { BigRoot }
    \/ path = <<"build">>
    \/ \E root \in SourceRoots, rel \in RelDirs : path = PathJoin(root, rel)

Exists(path) == IsFile(path) \/ IsDir(path)

\* source.rglob("*"): every entry below source, in enumeration order
RGlob(source) ==
    [ i \in 1..Len(Entries(source)) |-> PathJoin(source, Entries(source)[i]) ]

\* values of the command line
SourceArgs == SourceRoots \cup { <<"gone">>, <<"proj", "a.txt">> }
DestinationArgs == { <<"out">>, <<"out", "proj">> }

\* all orders in which a set can be enumerated
RECURSIVE Orders(_)
Orders(S) ==
    IF S = {} THEN { << >> }
    ELSE UNION { { <<x>> \o rest : rest \in Orders(S \ {x}) } : x \in S }

MaxShuffled == 3    \* size up to which every order of a set is listed

\* one order of a set: the relative paths of the files of the big directory
\* as the directory lists them, then the others
RECURSIVE Listed(_)
Listed(S) ==
    LET known == [ i \in 1..Len(BigEntries) |-> PathStr(BigEntries[i]) ]
        In(x) == x \in S
    IN  IF S = {} THEN << >>
        ELSE IF S \cap Range(known) # {}
        THEN SelectSeq(known, In) \o Listed(S \ Range(known))
        ELSE LET x == CHOOSE y \in S : TRUE
             IN  <<x>> \o Listed(S \ {x})

\* list(set): the orders in which Python may enumerate the set
ListOrders(S) ==
    IF Cardinality(S) <= MaxShuffled THEN Orders(S) ELSE { Listed(S) }

\* the subsets of S with at most k elements
RECURSIVE FewOf(_, _)
FewOf(S, k) ==
    IF k = 0 THEN { {} }
    ELSE LET less == FewOf(S, k - 1)
         IN  less \cup { T \cup {x} : T \in less, x \in S }

\* the sum of the sizes of the files of S, the files of one size taken
\* together
RECURSIVE SumSizes(_)
SumSizes(S) ==
    IF S = {} THEN 0
    ELSE LET size == StatSize(CHOOSE y \in S : TRUE)
             same == { x \in S : StatSize(x) = size }
         IN  size * Cardinality(same) + SumSizes(S \ same)

\* the environment makes an operation fail, or interrupts the process
Fault == faults < MaxFaults /\ faults' = faults + 1
NoFault == faults' = faults

(***************************************************************************)
(* src/core/state.py                                                       *)
(***************************************************************************)

\* MigrationState(source_path, destination_path) with the dataclass defaults
MigrationState(source_path, destination_path) ==
    [ source_path      |-> source_path,
      destination_path |-> destination_path,
      total_size       |-> 0,
      copied_size      |-> 0,
      copied_files     |-> {},
      failed_files     |-> {},      \* the dict, as a set of <<key, value>>
      start_time       |-> None ]   \* None or Some(clock value)

\* keys of a dict held as a set of pairs
Keys(dict) == { kv[1] : kv \in dict }

\* dict[key] = value
DictSet(dict, key, value) ==
    { kv \in dict : kv[1] # key } \cup { <<key, value>> }

\* datetime.isoformat / datetime.fromisoformat on the logical clock
IsoFormat(t) == ToString(t)
FromIsoFormat(str) == CHOOSE t \in 0..(MaxRuns + 1) : ToString(t) = str

\* MigrationState.to_dict: the values json.dump can be given; list(set)
\* enumerates the set in an order of its own
to_dict(self) ==
    { [ source_path      |-> PathStr(self.source_path),
        destination_path |-> PathStr(self.destination_path),
        total_size       |-> self.total_size,
        copied_size      |-> self.copied_size,
        copied_files     |-> order,
        failed_files     |-> self.failed_files,
        start_time       |-> IF self.start_time # None
                             THEN IsoFormat(self.start_time[1]) ELSE "null" ]
      : order \in ListOrders(self.copied_files) }

\* MigrationState.from_dict
from_dict(data) ==
    [ source_path      |-> PathOf(data.source_path),
      destination_path |-> PathOf(data.destination_path),
      total_size       |-> data.total_size,
      copied_size      |-> data.copied_size,
      copied_files     |-> Range(data.copied_files),
      failed_files     |-> data.failed_files,
      start_time       |-> IF data.start_time # "null"
                           THEN Some(FromIsoFormat(data.start_time))
                           ELSE None ]

\* .migration_state.json: no file, a file json.load cannot parse, or a
\* JSON document
Absent == [ kind |-> "absent", data |-> << >> ]
Corrupt == [ kind |-> "corrupt", data |-> << >> ]
Json(data) == [ kind |-> "json", data |-> <<data>> ]

\* StateManager.save_state: what the file holds afterwards and whether the
\* call raised RuntimeError (open failed: file untouched; write failed: the
\* file was truncated by open(..., "w") and is left incomplete)
save_state(self, file) ==
    { [ raised |-> FALSE, file |-> Json(data) ] : data \in to_dict(self) }
    \cup { [ raised |-> TRUE, file |-> file ],
           [ raised |-> TRUE, file |-> Corrupt ] }

\* the keys from_dict reads
Fields ==
    { "source_path", "destination_path", "total_size", "copied_size",
      "copied_files", "failed_files", "start_time" }

\* whether datetime.fromisoformat accepts the string
IsIso(str) == \E t \in 0..(MaxRuns + 1) : ToString(t) = str

\* StateManager.load_state: None or a state, or the exception that leaves
\* it: RuntimeError for what lines 73-74 catch (OSError, JSONDecodeError),
\* KeyError for a key from_dict does not find, ValueError for a start_time
\* fromisoformat rejects
load_state(file) ==
    IF file = Absent THEN [ raised |-> "", state |-> None ]
    ELSE IF file = Corrupt THEN [ raised |-> "RuntimeError", state |-> None ]
    ELSE IF ~(Fields \subseteq DOMAIN file.data[1])
    THEN [ raised |-> "KeyError", state |-> None ]
    ELSE IF file.data[1].start_time # "null" /\ ~IsIso(file.data[1].start_time)
    THEN [ raised |-> "ValueError", state |-> None ]
    ELSE [ raised |-> "", state |-> Some(from_dict(file.data[1])) ]

\* StateManager.cleanup_state: unlink, an OSError is passed over
cleanup_state(file) ==
    IF file = Absent THEN { Absent } ELSE { Absent, file }

(***************************************************************************)
(* The text of .migration_state.json: json.dump(..., indent=2) and         *)
(* json.load                                                               *)
(***************************************************************************)

\* a file given by its text
TextFile(text) == [ exists |-> TRUE, text |-> text ]
NoFile == [ exists |-> FALSE, text |-> "" ]

\* json.encoder without the escapes
escape_none(str) == str

\* json.encoder: the inside of a string literal, with " and \ escaped
RECURSIVE escape(_)
escape(str) ==
    IF str = "" THEN ""
    ELSE LET c == SubSeq(str, 1, 1)
         IN  (IF c = "\"" THEN "\\\""
              ELSE IF c = "\\" THEN "\\\\"
              ELSE c) \o escape(SubSeq(str, 2, Len(str)))

dump_str(str) == "\"" \o escape(str) \o "\""

\* the items of a list or of an object, each on a line of its own
RECURSIVE dump_items(_, _)
dump_items(items, indent) ==
    IF items = << >> THEN ""
    ELSE indent \o Head(items) \o (IF Len(items) > 1 THEN "," ELSE "")
             \o dump_items(Tail(items), indent)

\* a list of strings, at the first level of the document
dump_list(list) ==
    IF list = << >> THEN "[]"
    ELSE "[" \o dump_items([ i \in 1..Len(list) |-> dump_str(list[i]) ],
                           "\n    ")
             \o "\n  ]"

\* a dict of strings given as a list of <<key, value>>, at the first level
dump_dict(pairs) ==
    IF pairs = << >> THEN "{}"
    ELSE "{" \o dump_items([ i \in 1..Len(pairs) |->
                               dump_str(pairs[i][1]) \o ": "
                                   \o dump_str(pairs[i][2]) ],
                           "\n    ")
             \o "\n  }"

\* json.dump(data, f, indent=2): the texts written for a value of to_dict,
\* one for each order of the dict failed_files
json_dump(data) ==
    { "{" \o dump_items(
               << "\"source_path\": " \o dump_str(data.source_path),
                  "\"destination_path\": " \o dump_str(data.destination_path),
                  "\"total_size\": " \o ToString(data.total_size),
                  "\"copied_size\": " \o ToString(data.copied_size),
                  "\"copied_files\": " \o dump_list(data.copied_files),
                  "\"failed_files\": " \o dump_dict(failed),
                  "\"start_time\": " \o (IF data.start_time = "null"
                                          THEN "null"
                                          ELSE dump_str(data.start_time)) >>,
               "\n  ")
          \o "\n}"
      : failed \in ListOrders(data.failed_files) }

\* a value json.load builds: its type, and the string, the number, or the
\* items (elements of a list, <<key, value>> of an object)
Value(type, str, num, items) ==
    [ type |-> type, str |-> str, num |-> num, items |-> items ]

\* the outcome of a parsing step: the value and the position after it
Parsed(val, pos) == [ ok |-> TRUE, val |-> val, pos |-> pos ]
Failed == [ ok |-> FALSE, val |-> Value("error", "", 0, << >>), pos |-> 0 ]

\* the character at a position, "" after the end
Ch(text, i) == IF i <= Len(text) THEN SubSeq(text, i, i) ELSE ""

RECURSIVE skip_ws(_, _)
skip_ws(text, i) ==
    IF Ch(text, i) \in { " ", "\n" } THEN skip_ws(text, i + 1) ELSE i

Digits == { ToString(d) : d \in 0..9 }
DigitOf(c) == CHOOSE d \in 0..9 : ToString(d) = c

\* json.decoder.scanstring after the opening quote
RECURSIVE scan_string(_, _, _)
scan_string(text, i, acc) ==
    LET c == Ch(text, i)
    IN  IF c = "" \/ c = "\n" THEN Failed
        ELSE IF c = "\"" THEN Parsed(Value("str", acc, 0, << >>), i + 1)
        ELSE IF c = "\\"
        THEN IF Ch(text, i + 1) \in { "\"", "\\" }
             THEN scan_string(text, i + 2, acc \o Ch(text, i + 1))
             ELSE Failed
        ELSE scan_string(text, i + 1, acc \o c)

RECURSIVE scan_digits(_, _, _)
scan_digits(text, i, acc) ==
    IF Ch(text, i) \in Digits
    THEN scan_digits(text, i + 1, 10 * acc + DigitOf(Ch(text, i)))
    ELSE Parsed(Value("int", "", acc, << >>), i)

\* a number: 0, or digits that do not start with 0
scan_number(text, i) ==
    IF Ch(text, i) = "0" THEN Parsed(Value("int", "", 0, << >>), i + 1)
    ELSE scan_digits(text, i, 0)

\* an object that the end of the text closes as well
object_end_or_eof(c) == c \in { "}", "" }

\* what closes an object
object_end(c) == c = "}"

RECURSIVE scan_value(_, _)
RECURSIVE scan_elements(_, _, _)
RECURSIVE scan_pairs(_, _, _)

\* json.scanner: the value that starts at position i
scan_value(text, i) ==
    LET c == Ch(text, i)
    IN  IF c = "\"" THEN scan_string(text, i + 1, "")
        ELSE IF c \in Digits THEN scan_number(text, i)
        ELSE IF c = "n"
        THEN IF i + 3 <= Len(text) /\ SubSeq(text, i, i + 3) = "null"
             THEN Parsed(Value("null", "", 0, << >>), i + 4)
             ELSE Failed
        ELSE IF c = "["
        THEN LET j == skip_ws(text, i + 1)
             IN  IF Ch(text, j) = "]"
                 THEN Parsed(Value("list", "", 0, << >>), j + 1)
                 ELSE scan_elements(text, j, << >>)
        ELSE IF c = "{"
        THEN LET j == skip_ws(text, i + 1)
             IN  IF object_end(Ch(text, j))
                 THEN Parsed(Value("dict", "", 0, << >>), j + 1)
                 ELSE scan_pairs(text, j, << >>)
        ELSE Failed

\* json.decoder.JSONArray: the elements from position i on
scan_elements(text, i, acc) ==
    LET v == scan_value(text, i)
        j == skip_ws(text, v.pos)
    IN  IF ~v.ok THEN Failed
        ELSE IF Ch(text, j) = ","
        THEN scan_elements(text, skip_ws(text, j + 1), Append(acc, v.val))
        ELSE IF Ch(text, j) = "]"
        THEN Parsed(Value("list", "", 0, Append(acc, v.val)), j + 1)
        ELSE Failed

\* json.decoder.JSONObject: the pairs from position i on
scan_pairs(text, i, acc) ==
    LET k == IF Ch(text, i) = "\"" THEN scan_string(text, i + 1, "")
             ELSE Failed
        colon == skip_ws(text, k.pos)
        v == IF k.ok /\ Ch(text, colon) = ":"
             THEN scan_value(text, skip_ws(text, colon + 1))
             ELSE Failed
        j == skip_ws(text, v.pos)
        pairs == Append(acc, <<k.val.str, v.val>>)
    IN  IF ~v.ok THEN Failed
        ELSE IF Ch(text, j) = ","
        THEN scan_pairs(text, skip_ws(text, j + 1), pairs)
        ELSE IF object_end(Ch(text, j))
        THEN Parsed(Value("dict", "", 0, pairs), j + 1)
        ELSE Failed

\* json.load: the value of the whole text, or JSONDecodeError
json_load(text) ==
    LET v == scan_value(text, skip_ws(text, 1))
    IN  IF v.ok /\ skip_ws(text, v.pos) > Len(text) THEN v.val
        ELSE Failed.val

\* the Python object of a value: str, int, None ("null", as in to_dict),
\* list, and dict as the set of its <<key, value>>, a later pair replacing
\* an earlier one with the same key
RECURSIVE python(_)
python(val) ==
    CASE val.type = "str"  -> val.str
      [] val.type = "int"  -> val.num
      [] val.type = "null" -> "null"
      [] val.type = "list" ->
            [ i \in 1..Len(val.items) |-> python(val.items[i]) ]
      [] val.type = "dict" ->
            { <<val.items[i][1], python(val.items[i][2])>> :
                i \in { n \in 1..Len(val.items) :
                          \A m \in (n + 1)..Len(val.items) :
                              val.items[m][1] # val.items[n][1] } }

\* the object at the top of the document, as the record from_dict reads
document(val) ==
    LET last(key) == CHOOSE n \in 1..Len(val.items) :
                        /\ val.items[n][1] = key
                        /\ \A m \in (n + 1)..Len(val.items) :
                              val.items[m][1] # key
    IN  [ key \in { val.items[n][1] : n \in 1..Len(val.items) } |->
            python(val.items[last(key)][2]) ]

\* what load_state finds: no file, a text json.load rejects, or a document
\* (one that is no object has none of the keys)
FileOf(file) ==
    IF ~file.exists THEN Absent
    ELSE LET val == json_load(file.text)
         IN  IF val.type = "error" THEN Corrupt
             ELSE IF val.type # "dict" THEN Json(<< >>)
             ELSE Json(document(val))

\* StateManager.save_state on the text of the file: the call returns, or
\* raises RuntimeError (open failed: the file is untouched; a write failed:
\* the file holds a part of the text), or the process is killed before
\* open, or after open with a part of the text or all of it written
save_text(self, file) ==
    LET texts == UNION { json_dump(data) : data \in to_dict(self) }
    IN  { [ how |-> "saved", file |-> TextFile(text) ] : text \in texts }
        \cup { [ how |-> "raised", file |-> file ],
               [ how |-> "killed", file |-> file ] }
        \cup UNION { { [ how |-> "raised",
                         file |-> TextFile(SubSeq(text, 1, k)) ]
                       : k \in 0..(Len(text) - 1) }
                     : text \in texts }
        \cup UNION { { [ how |-> "killed",
                         file |-> TextFile(SubSeq(text, 1, k)) ]
                       : k \in 0..Len(text) }
                     : text \in texts }

\* StateManager.load_state on the text of the file
load_text(file) == load_state(FileOf(file))

(***************************************************************************)
(* src/utils/progress.py and src/utils/hashing.py                          *)
(***************************************************************************)

TheFilter == FileFilter({}, {})     \* SmartFileMigrator.__init__, line 44

\* self.file_filter.should_exclude on the entries of the file system
Excluded ==
    { p \in UNION { Range(RGlob(root)) : root \in SourceRoots \cup { BigRoot } } :
        should_exclude(TheFilter, p) }

\* the test both walks apply to an entry (migrator.py line 120,
\* progress.py line 33)
Kept(item) == IsFile(item) /\ item \notin Excluded

\* ProgressTracker.calculate_directory_size; unreadable is the set of files
\* whose stat() raised and that the scan passed over with a warning
calculate_directory_size(path, unreadable) ==
    SumSizes({ item \in Range(RGlob(path)) : Kept(item) } \ unreadable)

\* what a file can hold
Contents == { "", "a", "b", "ab" }

\* hashlib.md5(content).hexdigest()
md5(content) ==
    CASE content = ""   -> "d41d8cd98f00b204e9800998ecf8427e"
      [] content = "a"  -> "0cc175b9c0f1b6a831c399e269772661"
      [] content = "b"  -> "92eb5ffee6ae2fec3ad71c777531578f"
      [] content = "ab" -> "187ef4436122d1cc2f40dc2b92f0eba0"

\* a file as FileHasher sees it: whether it exists, whether open and read
\* succeed, and its content
File(exists, readable, content) ==
    [ exists |-> exists, readable |-> readable, content |-> content ]

Missing == File(FALSE, FALSE, "")

Files ==
    { Missing } \cup { File(TRUE, r, c) : r \in BOOLEAN, c \in Contents }

\* FileHasher.get_file_hash: the digest of the content, "" when the read fails
get_file_hash(file_path) ==
    IF file_path.readable THEN md5(file_path.content) ELSE ""

\* FileHasher.verify_copy without the test for the empty digest
verify_copy_equal_only(source, destination) ==
    IF ~destination.exists THEN FALSE
    ELSE get_file_hash(source) = get_file_hash(destination)

\* FileHasher.verify_copy
verify_copy(source, destination) ==
    IF ~destination.exists THEN FALSE
    ELSE LET source_hash == get_file_hash(source)
             dest_hash == get_file_hash(destination)
         IN  source_hash = dest_hash /\ source_hash # ""

(***************************************************************************)
(* src/core/migrator.py and src/main.py                                    *)
(***************************************************************************)

St == state[1]      \* the MigrationState the local `state` refers to

\* actual_destination = destination / source.name  (line 172)
actual_destination(source, destination) ==
    IF PathName(source) = "" THEN destination
    ELSE PathJoin(destination, <<PathName(source)>>)

\* _collect_files_to_copy
collect_files_to_copy(source, destination, copied_files) ==
    LET Wanted(file_path) ==
            /\ Kept(file_path)
            /\ PathStr(RelativeTo(file_path, source)) \notin copied_files
        found == SelectSeq(RGlob(source), Wanted)
    IN  [ i \in 1..Len(found) |->
            << found[i], PathJoin(destination, RelativeTo(found[i], source)) >> ]

source_file == files_to_copy[idx][1]

\* str(source_file.relative_to(source))  (lines 234, 245, 249)
relative_path == PathStr(RelativeTo(source_file, args.source))

NoHashArgs == [ source |-> Missing, destination |-> Missing ]

NoHashResult == [ value |-> "unset", source_hash |-> "", dest_hash |-> "" ]

NotLoaded == [ raised |-> "unset", state |-> None ]

NoStateArgs == [ state |-> None, prior |-> NoFile ]

NoStateResult == [ how |-> "unset", file |-> NoFile, loaded |-> NotLoaded ]

NoFilterArgs ==
    [ additional_exclude |-> {}, additional_include |-> {}, path |-> << >> ]

NoArgs == [ source |-> << >>, destination |-> << >>,
            resume |-> FALSE, verify_files |-> FALSE ]

NewHist(file, by, ok, count) ==
    [ ckpt0       |-> file,     \* the checkpoint file when the process started
      ckpt_by0    |-> by,       \* and the call that had written it
      faults0     |-> count,    \* the value of faults when the process started
      loaded      |-> FALSE,    \* the state was taken from the checkpoint
      loaded0     |-> {},       \* copied_files of the state taken from it
      pending     |-> {},       \* relative paths in files_to_copy
      unreadable  |-> {},       \* files the size scan passed over
      attempts    |-> << >>,    \* relative paths the loop body was entered for
      copies      |-> {},       \* relative paths _copy_file_async was called for
      ok          |-> ok,       \* relative paths copied in full and verified,
                                \* by this process or an earlier one
      intr        |-> "",       \* position at which an interruption arrived
      save_failed |-> FALSE,    \* a save_state of this process raised
      wrote       |-> FALSE ]   \* the last save_state of this process succeeded

\* the process ends: migrate_directory returned or raised, main.py exits
Exit(res, code) ==
    /\ pc' = "exited"
    /\ result' = res
    /\ exit_code' = code
    /\ files_to_copy' = << >>
    /\ idx' = 0
    /\ file_size' = 0
    /\ success' = FALSE
    /\ dest' = "prior"

\* the process goes on
Goto(label) ==
    /\ pc' = label
    /\ UNCHANGED <<result, exit_code>>

\* main.py with the handler of line 85 taking an error for a success
ExitCode_error_is_success(res) ==
    IF res = "False" THEN 1
    ELSE IF res = "KeyboardInterrupt" THEN 130
    ELSE IF res = "CancelledError" THEN 130
    ELSE 0

\* main.py lines 69-87, and the interpreter for what main does not catch:
\* the exit status for each way migrate_directory ends
ExitCode(res) ==
    IF res = "True" THEN 0
    ELSE IF res = "False" THEN 1
    ELSE IF res = "KeyboardInterrupt" THEN 130
    ELSE IF res = "CancelledError" THEN 130
    ELSE 1

\* no process has run yet
EngineIdle ==
    /\ pc = "exited"
    /\ args = NoArgs
    /\ state = None
    /\ files_to_copy = << >>
    /\ idx = 0
    /\ file_size = 0
    /\ success = FALSE
    /\ ckpt = Absent
    /\ dest = "prior"
    /\ result = "none"
    /\ exit_code = -1
    /\ runs = 0
    /\ hist = NewHist(Absent, << >>, {}, 0)
    /\ ckpt_by = << >>
    /\ faults = 0

Init ==
    /\ EngineIdle
    /\ fargs = NoFilterArgs
    /\ fresult = "unset"
    /\ hargs = NoHashArgs
    /\ hresult = NoHashResult
    /\ sargs = NoStateArgs
    /\ sresult = NoStateResult

\* main.py: the command line is parsed and migrate_directory is called.
\* The processes of one behaviour work on one job: the later ones are given
\* the source and the --verify of the first
Start(source, destination, resume, verify_files) ==
    /\ pc = "exited"
    /\ runs < MaxRuns
    /\ runs = 0 \/ (source = args.source /\ verify_files = args.verify_files)
    /\ runs' = runs + 1
    /\ args' = [ source |-> source, destination |-> destination,
                 resume |-> resume, verify_files |-> verify_files ]
    /\ state' = None
    /\ hist' = NewHist(ckpt, ckpt_by, hist.ok, faults)
    /\ pc' = "validate"
    /\ result' = "running"
    /\ exit_code' = -1
    /\ UNCHANGED <<files_to_copy, idx, file_size, success, ckpt, dest,
                   ckpt_by, faults, unitVars>>

\* lines 146-153 without the test of line 151
Validate_exists_only ==
    /\ pc = "validate"
    /\ IF ~Exists(args.source)
       THEN Exit("False", ExitCode("False"))
       ELSE /\ Goto("load")
            /\ UNCHANGED <<files_to_copy, idx, file_size, success, dest>>
    /\ UNCHANGED <<args, state, ckpt, runs, hist, ckpt_by, faults, unitVars>>

\* lines 146-153
Validate ==
    /\ pc = "validate"
    /\ IF ~Exists(args.source) \/ ~IsDir(args.source)
       THEN Exit("False", ExitCode("False"))
       ELSE /\ Goto("load")
            /\ UNCHANGED <<files_to_copy, idx, file_size, success, dest>>
    /\ UNCHANGED <<args, state, ckpt, runs, hist, ckpt_by, faults, unitVars>>

\* the test of lines 160-162 with the source left out
paths_differ_destination_only(loaded, source, destination) ==
    loaded.destination_path # destination

\* the test of lines 160-162 on a loaded state
paths_differ(loaded, source, destination) ==
    \/ loaded.source_path # source
    \/ loaded.destination_path # destination

\* lines 155-169; an exception of load_state other than RuntimeError leaves
\* migrate_directory and is caught by main (lines 85-87)
LoadState ==
    /\ pc = "load"
    /\ LET got == load_state(ckpt)
       IN  IF args.resume /\ got.raised = "RuntimeError"
           THEN /\ Exit("False", ExitCode("False"))
                /\ UNCHANGED <<state, hist>>
           ELSE IF args.resume /\ got.raised # ""
           THEN /\ Exit(got.raised, ExitCode(got.raised))
                /\ UNCHANGED <<state, hist>>
           ELSE /\ state' = IF ~args.resume \/ got.state = None
                               \/ paths_differ(got.state[1], args.source,
                                               args.destination)
                            THEN None ELSE got.state
                /\ hist' = [hist EXCEPT
                              !.loaded = (state' # None),
                              !.loaded0 = IF state' # None
                                          THEN state'[1].copied_files ELSE {}]
                /\ Goto("create")
                /\ UNCHANGED <<files_to_copy, idx, file_size, success, dest>>
    /\ UNCHANGED <<args, ckpt, runs, ckpt_by, faults, unitVars>>

\* lines 171-185; every file the scan cannot stat is one I/O error
CreateState ==
    /\ pc = "create"
    /\ IF state = None
       THEN \E unreadable \in
                 FewOf({ item \in Range(RGlob(args.source)) : Kept(item) },
                       MaxFaults - faults) :
              /\ faults + Cardinality(unreadable) <= MaxFaults
              /\ faults' = faults + Cardinality(unreadable)
              /\ state' = Some(
                    [ MigrationState(args.source,
                          actual_destination(args.source, args.destination))
                        EXCEPT !.start_time = Some(runs),
                               !.total_size = calculate_directory_size(
                                                  args.source, unreadable) ])
              /\ hist' = [hist EXCEPT !.unreadable = unreadable]
       ELSE UNCHANGED <<state, hist, faults>>
    /\ Goto("collect")
    /\ UNCHANGED <<args, files_to_copy, idx, file_size, success, ckpt, dest,
                   runs, ckpt_by, unitVars>>

\* cleanup_state called from the process
Cleaned ==
    \E file \in cleanup_state(ckpt) :
        /\ ckpt' = file
        /\ IF file = Absent THEN NoFault ELSE Fault

\* lines 187-198
CollectFiles ==
    /\ pc = "collect"
    /\ LET found == collect_files_to_copy(
                        args.source,
                        actual_destination(args.source, args.destination),
                        St.copied_files)
       IN  /\ hist' = [hist EXCEPT
                         !.pending = { PathStr(RelativeTo(found[i][1],
                                                          args.source))
                                         : i \in 1..Len(found) }]
           /\ IF found = << >>
              THEN /\ Cleaned
                   /\ Exit("True", ExitCode("True"))
              ELSE /\ files_to_copy' = found
                   /\ idx' = 0
                   /\ Goto("for")
                   /\ UNCHANGED <<ckpt, file_size, success, dest, faults>>
    /\ UNCHANGED <<args, state, runs, ckpt_by, unitVars>>

\* line 217: the for statement takes the next pair or leaves the loop
ForNext ==
    /\ pc = "for"
    /\ IF idx < Len(files_to_copy)
       THEN idx' = idx + 1 /\ Goto("stat")
       ELSE idx' = idx /\ Goto("final")
    /\ dest' = "prior"
    /\ UNCHANGED <<args, state, files_to_copy, file_size, success, ckpt, runs,
                   hist, ckpt_by, faults, unitVars>>

\* line 219: source_file.stat().st_size, or OSError
Stat ==
    /\ pc = "stat"
    /\ hist' = [hist EXCEPT !.attempts = Append(@, relative_path)]
    /\ \/ file_size' = StatSize(source_file) /\ Goto("copy") /\ NoFault
       \/ file_size' = file_size /\ Goto("oserr") /\ Fault
    /\ UNCHANGED <<args, state, files_to_copy, idx, success, ckpt, dest, runs,
                   ckpt_by, unitVars>>

\* line 222, _copy_file_async: mkdir, the chunks, copystat and True; or an
\* OSError at one of them and False, the destination left as it was or
\* written in part
\* _copy_file_async returning True although a chunk could not be written
copy_file_async_true_on_error ==
    \/ /\ dest' = "full"
       /\ success' = TRUE
       /\ NoFault
    \/ /\ dest' \in { "prior", "partial" }
       /\ success' = TRUE
       /\ Fault

copy_file_async ==
    \/ /\ dest' = "full"
       /\ success' = TRUE
       /\ NoFault
    \/ /\ dest' \in { "prior", "partial" }
       /\ success' = FALSE
       /\ Fault

CopyFile ==
    /\ pc = "copy"
    /\ hist' = [hist EXCEPT !.copies = @ \cup {relative_path}]
    /\ copy_file_async
    /\ Goto("verify")
    /\ UNCHANGED <<args, state, files_to_copy, idx, file_size, ckpt, runs,
                   ckpt_by, unitVars>>

\* the source file of a copy as verify_copy finds it
SourceSeen == { File(TRUE, r, "a") : r \in BOOLEAN }

\* the destination file as verify_copy finds it: absent when the copy never
\* created it, else holding the source's content unless the device altered it
DestSeen ==
    IF dest = "prior" THEN { Missing }
    ELSE { File(TRUE, r, c) : r \in BOOLEAN, c \in { "a", "b" } }

\* lines 224-232: the optional verification, then the branch on success
Verify ==
    /\ pc = "verify"
    /\ \E source \in SourceSeen, destination \in DestSeen :
          LET checked == success /\ args.verify_files
              passed == verify_copy(source, destination)
          IN  /\ success' = IF checked /\ ~passed THEN FALSE ELSE success
              /\ IF checked /\ ~passed THEN Fault ELSE NoFault
              /\ hist' = IF dest = "full" /\ (args.verify_files => passed)
                         THEN [hist EXCEPT !.ok = @ \cup {relative_path}]
                         ELSE hist
              /\ Goto(IF success' THEN "add" ELSE "fail")
    /\ UNCHANGED <<args, state, files_to_copy, idx, file_size, ckpt, dest,
                   runs, ckpt_by, unitVars>>

\* lines 234-235
AddCopied ==
    /\ pc = "add"
    /\ state' = Some([St EXCEPT !.copied_files = @ \cup {relative_path}])
    /\ Goto("size")
    /\ UNCHANGED <<args, files_to_copy, idx, file_size, success, ckpt, dest,
                   runs, hist, ckpt_by, faults, unitVars>>

\* save_state called from the process: the file, and the history
Saved(out) ==
    /\ ckpt' = out.file
    /\ ckpt_by' = IF out.file = ckpt THEN ckpt_by
                  ELSE <<args.source, args.destination>>
    /\ hist' = [hist EXCEPT !.wrote = ~out.raised,
                            !.save_failed = @ \/ out.raised]
    /\ IF out.raised THEN Fault ELSE NoFault

\* line 236 left out
add_size_skipped(self, size) == self

\* line 236
add_size(self, size) == [self EXCEPT !.copied_size = @ + size]

\* line 242 with a test that never asks for a save
save_due_never(self) == FALSE

\* line 242: whether the periodic save is due
save_due(self) == Cardinality(self.copied_files) % SAVE_EVERY = 0

\* lines 236-243: copied_size, the progress bar, the periodic save; a
\* RuntimeError of save_state leaves migrate_directory
UpdateSize ==
    /\ pc = "size"
    /\ LET new == add_size(St, file_size)
       IN  /\ state' = Some(new)
           /\ IF save_due(new)
              THEN \E out \in save_state(new, ckpt) :
                     /\ Saved(out)
                     /\ IF out.raised
                        THEN Exit("RuntimeError", ExitCode("RuntimeError"))
                        ELSE /\ Goto("for")
                             /\ UNCHANGED <<files_to_copy, idx, file_size,
                                            success, dest>>
              ELSE /\ Goto("for")
                   /\ UNCHANGED <<ckpt, ckpt_by, hist, files_to_copy, idx,
                                  file_size, success, dest, faults>>
    /\ UNCHANGED <<args, runs, unitVars>>

\* lines 244-246
RecordFailure ==
    /\ pc = "fail"
    /\ state' = Some([St EXCEPT !.failed_files =
                        DictSet(@, relative_path, "Copy failed")])
    /\ Goto("for")
    /\ UNCHANGED <<args, files_to_copy, idx, file_size, success, ckpt, dest,
                   runs, hist, ckpt_by, faults, unitVars>>

\* lines 248-251: the OSError of line 219, recorded with str(e)
HandleOSError ==
    /\ pc = "oserr"
    /\ state' = Some([St EXCEPT !.failed_files =
                        DictSet(@, relative_path,
                                "[Errno 13] Permission denied")])
    /\ Goto("for")
    /\ UNCHANGED <<args, files_to_copy, idx, file_size, success, ckpt, dest,
                   runs, hist, ckpt_by, faults, unitVars>>

\* positions inside the try block of lines 218-246
TryBody == { "stat", "copy", "verify", "add", "size", "fail" }

\* positions of the loop outside the try block: the for statement and the
\* handler of OSError
LoopOutsideTry == { "for", "oserr" }

\* positions at which the coroutine is suspended in an await (lines 84-87)
Awaiting == { "copy" }

\* positions of migrate_directory before and after the loop
OutsideLoop == { "validate", "load", "create", "collect", "final", "finish" }

\* SIGINT raises KeyboardInterrupt inside the try block: line 252 catches
\* it. A copy that is cut leaves the destination written in part
Interrupt ==
    /\ pc \in TryBody
    /\ Goto("kbd")
    /\ Fault
    /\ dest' = IF pc = "copy" THEN "partial" ELSE dest
    /\ hist' = [hist EXCEPT !.intr = pc,
                            !.copies = IF pc = "copy"
                                       THEN @ \cup {relative_path} ELSE @]
    /\ UNCHANGED <<args, state, files_to_copy, idx, file_size, success, ckpt,
                   runs, ckpt_by, unitVars>>

\* lines 252-255: save_state, then raise; a RuntimeError of save_state
\* replaces the KeyboardInterrupt
HandleInterrupt ==
    /\ pc = "kbd"
    /\ \E out \in save_state(St, ckpt) :
          /\ Saved(out)
          /\ IF out.raised
             THEN Exit("RuntimeError", ExitCode("RuntimeError"))
             ELSE Exit("KeyboardInterrupt", ExitCode("KeyboardInterrupt"))
    /\ UNCHANGED <<args, state, runs, unitVars>>

\* SIGINT where line 252 does not catch it: KeyboardInterrupt raised outside
\* the try block, or, while the coroutine waits in an await, the event loop
\* of asyncio.run (main.py line 92) cancelling the task, which raises
\* CancelledError in the coroutine
InterruptUncaught ==
    /\ \/ /\ pc \in LoopOutsideTry \cup OutsideLoop
          /\ Exit("KeyboardInterrupt", ExitCode("KeyboardInterrupt"))
       \/ /\ pc \in Awaiting
          /\ Exit("CancelledError", ExitCode("CancelledError"))
    /\ Fault
    /\ hist' = [hist EXCEPT !.intr = pc,
                            !.copies = IF pc = "copy"
                                       THEN @ \cup {relative_path} ELSE @]
    /\ UNCHANGED <<args, state, ckpt, runs, ckpt_by, unitVars>>

\* lines 257-258
FinalSave ==
    /\ pc = "final"
    /\ \E out \in save_state(St, ckpt) :
          /\ Saved(out)
          /\ IF out.raised
             THEN Exit("RuntimeError", ExitCode("RuntimeError"))
             ELSE /\ Goto("finish")
                  /\ UNCHANGED <<files_to_copy, idx, file_size, success, dest>>
    /\ UNCHANGED <<args, state, runs, unitVars>>

\* lines 260-268
Finish ==
    /\ pc = "finish"
    /\ IF St.failed_files = {}
       THEN /\ Cleaned
            /\ Exit("True", ExitCode("True"))
       ELSE /\ UNCHANGED <<ckpt, faults>>
            /\ Exit("False", ExitCode("False"))
    /\ UNCHANGED <<args, state, runs, hist, ckpt_by, unitVars>>

Next ==
    \/ \E source \in SourceArgs, destination \in DestinationArgs,
          resume \in BOOLEAN, verify_files \in BOOLEAN :
          Start(source, destination, resume, verify_files)
    \/ Validate
    \/ LoadState
    \/ CreateState
    \/ CollectFiles
    \/ ForNext
    \/ Stat
    \/ CopyFile
    \/ Verify
    \/ AddCopied
    \/ UpdateSize
    \/ RecordFailure
    \/ HandleOSError
    \/ Interrupt
    \/ HandleInterrupt
    \/ InterruptUncaught
    \/ FinalSave
    \/ Finish

Spec == Init /\ [][Next]_vars

(***************************************************************************)
(* One process over the big directory                                      *)
(***************************************************************************)

\* no process has run yet; the run to come meets at most one I/O error or
\* interruption
BigInit ==
    /\ pc = "exited"
    /\ args = NoArgs
    /\ state = None
    /\ files_to_copy = << >>
    /\ idx = 0
    /\ file_size = 0
    /\ success = FALSE
    /\ ckpt = Absent
    /\ dest = "prior"
    /\ result = "none"
    /\ exit_code = -1
    /\ runs = 0
    /\ hist = NewHist(Absent, << >>, {}, MaxFaults - 1)
    /\ ckpt_by = << >>
    /\ faults = MaxFaults - 1
    /\ fargs = NoFilterArgs
    /\ fresult = "unset"
    /\ hargs = NoHashArgs
    /\ hresult = NoHashResult
    /\ sargs = NoStateArgs
    /\ sresult = NoStateResult

\* main.py: the one process of the behaviour, given the big directory and,
\* as no checkpoint is there, no --resume
BigStart(destination, verify_files) ==
    /\ runs = 0
    /\ Start(BigRoot, destination, FALSE, verify_files)

BigNext ==
    \/ \E destination \in DestinationArgs, verify_files \in BOOLEAN :
          BigStart(destination, verify_files)
    \/ Validate
    \/ LoadState
    \/ CreateState
    \/ CollectFiles
    \/ ForNext
    \/ Stat
    \/ CopyFile
    \/ Verify
    \/ AddCopied
    \/ UpdateSize
    \/ RecordFailure
    \/ HandleOSError
    \/ Interrupt
    \/ HandleInterrupt
    \/ InterruptUncaught
    \/ FinalSave
    \/ Finish

BigSpec == BigInit /\ [][BigNext]_vars

(***************************************************************************)
(* One process started where a checkpoint file may already be on disk      *)
(***************************************************************************)

\* the state an earlier process over source had in memory when it was
\* interrupted after the first k files of its list
StateAfter(source, destination, k) ==
    LET found == collect_files_to_copy(
                     source, actual_destination(source, destination), {})
        done == { found[i][1] : i \in 1..k }
    IN  [ MigrationState(source, actual_destination(source, destination))
            EXCEPT !.start_time = Some(0),
                   !.total_size = calculate_directory_size(source, {}),
                   !.copied_size = SumSizes(done),
                   !.copied_files =
                       { PathStr(RelativeTo(f, source)) : f \in done } ]

\* the calls that can have written a checkpoint, with the number of files
\* copied before the interruption
PriorCalls ==
    { c \in SourceRoots \X DestinationArgs \X (0..Len(RelEntries)) :
        c[3] <= Len(collect_files_to_copy(c[1], c[2], {})) }

\* a JSON document without the key copied_size
WithoutCopiedSize(data) ==
    [ key \in DOMAIN data \ { "copied_size" } |-> data[key] ]

\* the checkpoint files the process can find: none, one that cannot be read
\* or parsed, one an earlier process wrote, or one that was edited so that
\* a key is gone or start_time is no ISO date
PriorCheckpoints ==
    LET written == UNION { { [ by   |-> <<c[1], c[2]>>,
                               ok   |-> StateAfter(c[1], c[2], c[3]).copied_files,
                               file |-> Json(data) ]
                             : data \in to_dict(StateAfter(c[1], c[2], c[3])) }
                           : c \in PriorCalls }
        first == CHOOSE w \in written : w.file.data[1].copied_files # << >>
    IN  written \cup
        { [ by |-> << >>, ok |-> {}, file |-> Absent ],
          [ by |-> << >>, ok |-> {}, file |-> Corrupt ],
          [ first EXCEPT !.file.data[1] = WithoutCopiedSize(@) ],
          [ first EXCEPT !.file.data[1].start_time = "yesterday" ] }

ResumeInit ==
    \E prior \in PriorCheckpoints :
        /\ pc = "exited"
        /\ args = NoArgs
        /\ state = None
        /\ files_to_copy = << >>
        /\ idx = 0
        /\ file_size = 0
        /\ success = FALSE
        /\ ckpt = prior.file
        /\ dest = "prior"
        /\ result = "none"
        /\ exit_code = -1
        /\ runs = 0
        /\ hist = NewHist(prior.file, prior.by, prior.ok, 0)
        /\ ckpt_by = prior.by
        /\ faults = 0
        /\ fargs = NoFilterArgs
        /\ fresult = "unset"
        /\ hargs = NoHashArgs
        /\ hresult = NoHashResult
        /\ sargs = NoStateArgs
        /\ sresult = NoStateResult

\* main.py: the one process of the behaviour
StartOnce(source, destination, resume, verify_files) ==
    /\ runs = 0
    /\ Start(source, destination, resume, verify_files)

ResumeNext ==
    \/ \E source \in SourceArgs, destination \in DestinationArgs,
          resume \in BOOLEAN, verify_files \in BOOLEAN :
          StartOnce(source, destination, resume, verify_files)
    \/ Validate
    \/ LoadState
    \/ CreateState
    \/ CollectFiles
    \/ ForNext
    \/ Stat
    \/ CopyFile
    \/ Verify
    \/ AddCopied
    \/ UpdateSize
    \/ RecordFailure
    \/ HandleOSError
    \/ Interrupt
    \/ HandleInterrupt
    \/ InterruptUncaught
    \/ FinalSave
    \/ Finish

ResumeSpec == ResumeInit /\ [][ResumeNext]_vars

(***************************************************************************)
(* FileFilter on its own: a filter is built with additional tokens and     *)
(* should_exclude is called on a path                                      *)
(***************************************************************************)

MaxDepth == 3   \* segments of a path given to should_exclude

Segments ==
    { ".git", "objects", "HEAD", "node_modules", ".env", "a.log",
      "secret.txt" }

FilterPaths == UNION { [ 1..n -> Segments ] : n \in 1..MaxDepth }

AdditionalExclude == { {}, { "sec*" } }
AdditionalInclude == { {}, { "secret" } }

FilterInit ==
    /\ EngineIdle
    /\ fargs \in [ additional_exclude : AdditionalExclude,
                   additional_include : AdditionalInclude,
                   path : FilterPaths ]
    /\ fresult = "unset"
    /\ hargs = NoHashArgs
    /\ hresult = NoHashResult
    /\ sargs = NoStateArgs
    /\ sresult = NoStateResult

\* FileFilter(additional_exclude, additional_include).should_exclude(path)
ShouldExclude ==
    /\ fresult = "unset"
    /\ fresult' = IF should_exclude(FileFilter(fargs.additional_exclude,
                                               fargs.additional_include),
                                    fargs.path)
                  THEN "True" ELSE "False"
    /\ UNCHANGED <<fargs, hargs, hresult, sargs, sresult, engineVars>>

FilterNext == ShouldExclude

FilterSpec == FilterInit /\ [][FilterNext]_vars

(***************************************************************************)
(* FileHasher on its own: verify_copy is called on a source and a          *)
(* destination file                                                        *)
(***************************************************************************)

HashInit ==
    /\ EngineIdle
    /\ fargs = NoFilterArgs
    /\ fresult = "unset"
    /\ hargs \in [ source : Files, destination : Files ]
    /\ hresult = NoHashResult
    /\ sargs = NoStateArgs
    /\ sresult = NoStateResult

\* FileHasher().verify_copy(source, destination); the digests are those of
\* lines 51-52, "" where the call returns before computing them
VerifyCopy ==
    /\ hresult.value = "unset"
    /\ hresult' =
          [ value       |-> IF verify_copy(hargs.source, hargs.destination)
                            THEN "True" ELSE "False",
            source_hash |-> IF hargs.destination.exists
                            THEN get_file_hash(hargs.source) ELSE "",
            dest_hash   |-> IF hargs.destination.exists
                            THEN get_file_hash(hargs.destination) ELSE "" ]
    /\ UNCHANGED <<hargs, fargs, fresult, sargs, sresult, engineVars>>

HashNext == VerifyCopy

HashSpec == HashInit /\ [][HashNext]_vars

(***************************************************************************)
(* StateManager on its own: one state is saved over the file that is       *)
(* there, the write going through or not, and the file is loaded again     *)
(***************************************************************************)

\* names of files, one with a quote and a backslash in it
StateNames == { "a.txt", "b\"\\c" }

\* the states given to save_state
States ==
    { [ MigrationState(source, <<"out", "proj">>)
          EXCEPT !.total_size = 13,
                 !.copied_size = copied_size,
                 !.copied_files = copied_files,
                 !.failed_files = failed_files,
                 !.start_time = start_time ]
      : source \in SourceRoots,
        copied_size \in { 0, 13 },
        copied_files \in SUBSET StateNames,
        failed_files \in { {}, { <<".env", "Copy failed">> } },
        start_time \in { None, Some(1) } }

\* the state an earlier process saved
PriorState ==
    [ MigrationState(<<"proj">>, <<"out", "proj">>)
        EXCEPT !.total_size = 8, !.start_time = Some(0) ]

\* the file before the call: none, or the one an earlier save_state wrote
PriorFiles ==
    { NoFile } \cup { TextFile(text) : text \in json_dump(CHOOSE data \in to_dict(PriorState) : TRUE) }

StateInit ==
    /\ EngineIdle
    /\ fargs = NoFilterArgs
    /\ fresult = "unset"
    /\ hargs = NoHashArgs
    /\ hresult = NoHashResult
    /\ sargs \in [ state : { Some(self) : self \in States }, prior : PriorFiles ]
    /\ sresult = [ NoStateResult EXCEPT !.file = sargs.prior ]

\* StateManager().save_state(state)
SaveText ==
    /\ sresult.how = "unset"
    /\ \E out \in save_text(sargs.state[1], sargs.prior) :
          sresult' = [ how |-> out.how, file |-> out.file, loaded |-> NotLoaded ]
    /\ UNCHANGED <<sargs, fargs, fresult, hargs, hresult, engineVars>>

\* StateManager().load_state() by the next process
LoadText ==
    /\ sresult.how # "unset"
    /\ sresult.loaded = NotLoaded
    /\ sresult' = [ sresult EXCEPT !.loaded = load_text(sresult.file) ]
    /\ UNCHANGED <<sargs, fargs, fresult, hargs, hresult, engineVars>>

StateNext == SaveText \/ LoadText

StateSpec == StateInit /\ [][StateNext]_vars

(***************************************************************************)
(* Properties of FileFilter (under FilterSpec)                             *)
(***************************************************************************)

\* the path of the call has an include token of the filter in its final
\* component or in its string
HasIncludeToken ==
    \E token \in INCLUDE_PATTERNS \cup fargs.additional_include :
        \/ Contains(PathName(fargs.path), token)
        \/ Contains(PathStr(fargs.path), token)

UnderGitStore ==
    \E i \in 1..(Len(fargs.path) - 1) :
        fargs.path[i] = ".git" /\ fargs.path[i + 1] \in {"objects", "refs", "logs"}

\* C10: with the default tokens should_exclude returns True for every path
\* with .git/objects, .git/refs or .git/logs in it, and False for .git/HEAD.
C10_GitStoreExcluded ==
    (/\ fresult # "unset"
     /\ fargs.additional_exclude = {}
     /\ fargs.additional_include = {})
    => /\ UnderGitStore => fresult = "True"
       /\ fargs.path = <<".git", "HEAD">> => fresult = "False"

(***************************************************************************)
(* Properties of migrate_directory (under Spec)                            *)
(***************************************************************************)

\* the files below source that the filter keeps, as relative path strings
NonExcludedRel(source) ==
    { PathStr(RelativeTo(item, source)) :
        item \in { i \in Range(RGlob(source)) : Kept(i) } }

\* copied_files of the checkpoint file the process found when it started
Ckpt0Copied == Range(hist.ckpt0.data[1].copied_files)

\* the process ended, it was called with resume and with the source and the
\* destination of the call that wrote the checkpoint it found, and it met no
\* I/O error and no interruption
ResumedSameCall ==
    /\ pc = "exited"
    /\ state # None
    /\ args.resume
    /\ hist.ckpt0.kind = "json"
    /\ hist.ckpt_by0 = <<args.source, args.destination>>
    /\ faults = hist.faults0

\* C1: a call with resume and the source and destination of the run that
\* left the checkpoint copies exactly the non-excluded files that are not in
\* the checkpoint's copied_files, and ends with copied_files equal to the
\* set of all non-excluded files.
C1_ResumeExact ==
    ResumedSameCall =>
        /\ hist.copies = NonExcludedRel(args.source) \ Ckpt0Copied
        /\ St.copied_files = NonExcludedRel(args.source)

\* C2: a call with resume and the source and destination of the run that
\* left the checkpoint, when that checkpoint lists every non-excluded file
\* in copied_files, copies no file, deletes the checkpoint and returns True.
C2_ResumeComplete ==
    (ResumedSameCall /\ NonExcludedRel(args.source) \subseteq Ckpt0Copied) =>
        /\ hist.copies = {}
        /\ ckpt = Absent
        /\ result = "True"

C4_InterruptSavesCheckpoint ==
    (pc = "exited" /\ hist.intr \in TryBody \cup LoopOutsideTry) =>
        /\ result = "KeyboardInterrupt"
        /\ ckpt.kind = "json"
        /\ Range(ckpt.data[1].copied_files) = St.copied_files
        /\ ckpt.data[1].copied_size = St.copied_size
        /\ ckpt.data[1].failed_files = St.failed_files

\* C5: when the loop has run to its end without interruption and without a
\* failed save, every pending file was attempted exactly once and is in
\* exactly one of copied_files and failed_files.
C5_EachPendingInExactlyOne ==
    (pc = "final" /\ hist.intr = "" /\ ~hist.save_failed) =>
        /\ Range(hist.attempts) = hist.pending
        /\ Len(hist.attempts) = Cardinality(hist.pending)
        /\ \A f \in hist.pending :
              (f \in St.copied_files) # (f \in Keys(St.failed_files))

\* C6, for a process that went as far as building its state and met no I/O
\* error and no interruption: it ends either with True, failed_files empty
\* and the checkpoint file removed, or with False, failed_files not empty
\* and the checkpoint file holding the final state; so the checkpoint file
\* is deleted only by a run that ends with no entry in failed_files.
C6_TerminalStatus ==
    (pc = "exited" /\ state # None /\ faults = hist.faults0) =>
        \/ /\ result = "True"
           /\ St.failed_files = {}
           /\ ckpt = Absent
        \/ /\ result = "False"
           /\ St.failed_files # {}
           /\ ckpt.kind = "json"
           /\ from_dict(ckpt.data[1]) = St

\* a run from a fresh state to the end that returned True, over a tree whose
\* files could all be read by the scan
FullSuccessfulRun ==
    /\ pc = "exited"
    /\ state # None
    /\ result = "True"
    /\ ~hist.loaded
    /\ hist.unreadable = {}

\* C7: after a full successful run copied_size is the sum of the sizes of
\* the non-excluded files of the source tree, and total_size, computed by
\* calculate_directory_size before the loop, is the same sum.
C7_SizesAgree ==
    FullSuccessfulRun =>
        /\ St.copied_size =
              SumSizes({ item \in Range(RGlob(args.source)) : Kept(item) })
        /\ St.total_size = St.copied_size

\* C7's case: a full successful run over proj has ended with 8 bytes copied
C7_Witness ==
    /\ FullSuccessfulRun
    /\ args.source = <<"proj">>
    /\ St.copied_size = 8

\* C8: a fresh run over the tree a.txt (5 bytes), node_modules/x.js
\* (10 bytes), .env (3 bytes) in which no copy fails ends with copied_files
\* = {a.txt, .env}, has not copied node_modules/x.js and has total_size 8.
C8_EndToEnd ==
    FullSuccessfulRun =>
        /\ St.copied_files = { "a.txt", ".env" }
        /\ "node_modules/x.js" \notin hist.copies
        /\ St.total_size = 8

(***************************************************************************)
(* Properties of FileHasher (under HashSpec)                               *)
(***************************************************************************)

\* C11: verify_copy returns False when the destination is absent, False
\* when the digest of the source or of the destination is the empty
\* sentinel, and otherwise True exactly when the two digests are equal.
C11_VerifyCopy ==
    hresult.value # "unset" =>
        IF ~hargs.destination.exists THEN hresult.value = "False"
        ELSE IF hresult.source_hash = "" \/ hresult.dest_hash = ""
        THEN hresult.value = "False"
        ELSE (hresult.value = "True")
                <=> (hresult.source_hash = hresult.dest_hash)

\* C11's case: neither file could be read, both digests are the sentinel,
\* and verify_copy returned False
C11_Witness ==
    /\ hargs.source.exists /\ ~hargs.source.readable
    /\ hargs.destination.exists /\ ~hargs.destination.readable
    /\ hresult.source_hash = "" /\ hresult.dest_hash = ""
    /\ hresult.value = "False"

(***************************************************************************)
(* Properties of one process over a checkpoint found on disk (under        *)
(* ResumeSpec)                                                             *)
(***************************************************************************)

\* the source of the call does not exist or is not a directory
InvalidSource == ~Exists(args.source) \/ ~IsDir(args.source)

\* C12: when the source does not exist or is not a directory,
\* migrate_directory goes no further than the validation and returns False:
\* no state is built and no scan made, no file is copied, and the
\* checkpoint file stays as the process found it.
C12_InvalidSourceFails ==
    (runs > 0 /\ InvalidSource) =>
        /\ pc \in { "validate", "exited" }
        /\ state = None
        /\ hist.unreadable = {}
        /\ hist.attempts = << >>
        /\ hist.copies = {}
        /\ ckpt = hist.ckpt0
        /\ (pc = "exited" /\ hist.intr = "") =>
              (result = "False" /\ exit_code = 1)

\* C12's case: a process given a file as its source, with --resume and a
\* checkpoint of an earlier run on disk, has ended with False and the
\* checkpoint is still there
C12_Witness ==
    /\ pc = "exited"
    /\ args.source = <<"proj", "a.txt">>
    /\ args.resume
    /\ hist.ckpt0.kind = "json"
    /\ ckpt = hist.ckpt0
    /\ result = "False"

\* the checkpoint file exists but cannot be read, is no JSON, or is JSON
\* that lacks a key of MigrationState or holds a start_time that is no date
Malformed(file) ==
    \/ file.kind = "corrupt"
    \/ /\ file.kind = "json"
       /\ \/ ~(Fields \subseteq DOMAIN file.data[1])
          \/ /\ "start_time" \in DOMAIN file.data[1]
             /\ file.data[1].start_time # "null"
             /\ ~IsIso(file.data[1].start_time)

\* C13: load_state returns None when there is no checkpoint file and raises
\* RuntimeError for every checkpoint file that is unreadable or malformed;
\* a process called with resume then returns False and has copied no file.
C13_LoadErrors ==
    (pc = "exited" /\ runs > 0 /\ args.resume /\ ~InvalidSource
       /\ hist.intr = "") =>
        /\ hist.ckpt0 = Absent =>
              load_state(hist.ckpt0) = [ raised |-> "", state |-> None ]
        /\ Malformed(hist.ckpt0) =>
              /\ load_state(hist.ckpt0).raised = "RuntimeError"
              /\ result = "False"
              /\ hist.copies = {}

C15_CopiedFailedDisjoint ==
    /\ state # None => St.copied_files \cap Keys(St.failed_files) = {}
    /\ ckpt.kind = "json" =>
          Range(ckpt.data[1].copied_files)
              \cap Keys(ckpt.data[1].failed_files) = {}

\* C16: in every checkpoint on disk copied_size is the sum of the sizes of
\* the files of copied_files
C16_PersistedBytes ==
    ckpt.kind = "json" =>
        ckpt.data[1].copied_size =
            SumSizes({ PathOf(rel) : rel \in Range(ckpt.data[1].copied_files) })

\* the files recorded in memory that the checkpoint on disk does not hold
Unsaved ==
    St.copied_files \ (IF ckpt.kind = "json"
                       THEN Range(ckpt.data[1].copied_files) ELSE {})

\* C17, as stated: while a run is under way fewer than 100 files of the
\* copied_files in memory are missing from the checkpoint, and once the loop
\* has finished the checkpoint holds the state in memory before the decision
\* to delete it is taken
C17_FewerThanPeriodUnsaved ==
    /\ (pc # "exited" /\ state # None) => Cardinality(Unsaved) < SAVE_EVERY
    /\ pc = "finish" =>
          /\ ckpt.kind = "json"
          /\ from_dict(ckpt.data[1]) = St

\* C17, amended: while a run is under way at most 100 files of the
\* copied_files in memory are missing from the checkpoint (100 of them
\* between the recording of the hundredth file and the periodic save), and
\* once the loop has finished the checkpoint holds the state in memory before
\* the decision to delete it is taken
C17_AtMostPeriodUnsaved ==
    /\ (pc # "exited" /\ state # None) => Cardinality(Unsaved) <= SAVE_EVERY
    /\ pc = "finish" =>
          /\ ckpt.kind = "json"
          /\ from_dict(ckpt.data[1]) = St

\* the hundredth file has been recorded and the periodic save is about to
\* be made
C17_Witness ==
    /\ pc = "size"
    /\ Cardinality(St.copied_files) = SAVE_EVERY
    /\ Cardinality(Unsaved) = SAVE_EVERY

\* the state recorded in the checkpoint file the process found
Recorded == load_state(hist.ckpt0).state[1]

\* the process was called with resume, found a checkpoint it could load, and
\* the recorded source or destination is not the one of the call
CheckpointMismatch ==
    /\ runs > 0
    /\ args.resume
    /\ ~InvalidSource
    /\ hist.ckpt0.kind = "json"
    /\ load_state(hist.ckpt0).raised = ""
    /\ \/ Recorded.source_path # args.source
       \/ Recorded.destination_path # args.destination

C18_RoundTrip ==
    (sresult.how = "saved" /\ sresult.loaded # NotLoaded) =>
        sresult.loaded = [ raised |-> "", state |-> sargs.state ]

\* a state with two copied files, one with a quote and a backslash in its
\* name, a failed file and a start time has been saved and loaded
C18_Witness ==
    /\ sresult.how = "saved"
    /\ sresult.loaded.raised = ""
    /\ sargs.state[1].copied_files = StateNames
    /\ sargs.state[1].failed_files # {}
    /\ sargs.state[1].start_time # None

\* C19: when save_state raised or the process was killed while it saved,
\* the next load_state gives the state saved before (nothing if there was
\* no file), or the state that was being saved, or RuntimeError
C19_CutWrite ==
    (sresult.how \in { "raised", "killed" } /\ sresult.loaded # NotLoaded) =>
        \/ sresult.loaded = load_text(sargs.prior)
        \/ sresult.loaded = [ raised |-> "", state |-> sargs.state ]
        \/ sresult.loaded = [ raised |-> "RuntimeError", state |-> None ]

\* the process was killed with a part of the text written, over the file
\* of an earlier save, and load_state raised RuntimeError
C19_Witness ==
    /\ sresult.how = "killed"
    /\ sargs.prior.exists
    /\ Len(sresult.file.text) > 100
    /\ sresult.file # sargs.prior
    /\ sresult.loaded = [ raised |-> "RuntimeError", state |-> None ]

\* C21: the two source roots hold the same tree, so a full successful run
\* over either of them copies the same relative paths and computes the same
\* total_size: what the run over one root ends with is what the walk and the
\* scan give for every other root
C21_RootIndependent ==
    FullSuccessfulRun =>
        \A root \in SourceRoots :
            /\ St.copied_files = NonExcludedRel(root)
            /\ St.total_size = calculate_directory_size(root, {})
=============================================================================
